---- MODULE Spec2Model ----
(***************************************************************************)
(* A model of axsync-multithread.py: a batch downloader that reads URLs,   *)
(* scrapes a directory listing for each, and downloads every listed file   *)
(* as num_threads byte-range chunks fetched by a thread pool and then      *)
(* concatenated by combine_parts.                                          *)
(*                                                                         *)
(* Strings (URLs, hrefs, paths) are sequences of one-character strings, so *)
(* that prefix / suffix tests and path building are computed, not assumed. *)
(* File contents are sequences of bytes.  The disk is a function from the  *)
(* paths that exist to their contents.                                     *)
(***************************************************************************)
EXTENDS Integers, Sequences, FiniteSets, TLC

\* ------------------------------------------------------------------ bounds
\* Largest content-length a server reports in the batch model.
MaxSize == 3
\* Largest --threads value in the batch model.
MaxThreads == 2
\* Largest total_size / num_threads of the partition-only model.
PMaxSize == 12
PMaxThreads == 6

\* ----------------------------------------------------------- string helpers
StartsWith(s, c) == Len(s) > 0 /\ s[1] = c

EndsWith(s, c) == Len(s) > 0 /\ s[Len(s)] = c

\* str.strip('/') : drop every leading and trailing "/".
RECURSIVE LStrip(_)
LStrip(s) == IF StartsWith(s, "/") THEN LStrip(Tail(s)) ELSE s

RECURSIVE RStrip(_)
RStrip(s) == IF EndsWith(s, "/") THEN RStrip(SubSeq(s, 1, Len(s) - 1)) ELSE s

Strip(s) == RStrip(LStrip(s))

\* s.split('/')[-1] : the text after the last "/" (all of s when there is none;
\* the empty string when s is empty, since ''.split('/') is ['']).
RECURSIVE LastSegment(_)
LastSegment(s) ==
    IF s = <<>> THEN <<>>
    ELSE IF s[Len(s)] = "/" THEN <<>>
    ELSE LastSegment(SubSeq(s, 1, Len(s) - 1)) \o <<s[Len(s)]>>

\* os.path.join(a, b) on a POSIX system.
Join(a, b) ==
    IF StartsWith(b, "/") THEN b
    ELSE IF a = <<>> \/ EndsWith(a, "/") THEN a \o b
    ELSE a \o <<"/">> \o b

\* str(i) for i >= 0.
RECURSIVE Digits(_)
Digits(i) ==
    IF i < 10 THEN <<ToString(i)>>
    ELSE Digits(i \div 10) \o <<ToString(i % 10)>>

\* An artifact name without the part number.
PartFileShared(file_name, part_number) ==
    file_name \o <<".", "p", "a", "r", "t">>

\* f"{file_name}.part{part_number}"
PartFile(file_name, part_number) ==
    file_name \o <<".", "p", "a", "r", "t">> \o Digits(part_number)

\* --------------------------------------------------------------- the inputs
\* The URLs an input file may name (host and path; the scheme plays no role).
UrlX == [host |-> "h", path |-> <<"/", "x", "/">>]
UrlY == [host |-> "g", path |-> <<"/", "x", "/">>]
UrlRoot == [host |-> "r", path |-> <<>>]

\* The input files of the model: no URL, one URL, and two URLs (of two hosts)
\* whose last path segment, and so whose destination folder, is the same.
InputFiles == { <<>>, <<UrlX>>, <<UrlRoot>>, <<UrlX, UrlY>> }

\* --output
BaseDestination == <<"o">>

HrefA == <<"a">>
HrefAPart == <<"a", ".", "p", "a", "r", "t", "0">>
HrefUp == <<".", ".", "/">>
HrefQuery == <<"?", "s">>
HrefDir == <<"d", "/">>
HrefNone == <<>>

\* The hrefs of the anchors of the listing pages a server may answer with.
Pages ==
    { <<>>,
      <<HrefAPart, HrefA>>,
      <<HrefUp, HrefQuery, HrefDir, HrefNone, HrefA>> }

\* ------------------------------------------------------------------- state
VARIABLES
    urls,         \* the lines of the input file
    numThreads,   \* --threads
    pc,           \* position of the main (coordinating) thread
    urlIdx,       \* index into urls of the URL being processed
    links,        \* hrefs of the anchors of the current listing page
    linkIdx,      \* index into links of the anchor being processed
    destFolder,   \* destination_folder of the current URL
    fileUrl,      \* url argument of the running download_file
    filePath,     \* file_name argument of the running download_file
    headStatus,   \* outcome of the HEAD request of the running download_file
    totalSize,    \* total_size
    ranges,       \* ranges (1-based: ranges[i+1] is the range of chunk i)
    worker,       \* chunk index -> "running" | "done" | "failed"
    collected,    \* chunk indices whose future as_completed has yielded
    parts,        \* parts
    progress,     \* the tqdm counter
    k,            \* 1-based position of combine_parts in parts
    disk,         \* path -> contents, for the files that exist
    dirs,         \* the directories created
    log,          \* the per-file lines printed: <<"ok" | "err", file path>>
    diskAtStart   \* the disk as it was when the running download_file began

vars == <<urls, numThreads, pc, urlIdx, links, linkIdx, destFolder, fileUrl,
          filePath, headStatus, totalSize, ranges, worker, collected, parts,
          progress, k, disk, dirs, log, diskAtStart>>

batchVars == <<urls, numThreads, urlIdx, links, linkIdx, destFolder>>
fileVars == <<fileUrl, filePath, headStatus, totalSize, ranges, worker,
              collected, parts, progress, k, diskAtStart>>

\* ------------------------------------------------------------- the server
\* Byte at offset off of the resource at url u: a fixed content that differs
\* between offsets and between resources.
SourceByte(u, off) ==
    ((IF u.host = "h" THEN 0 ELSE 128) + 16 * Len(u.path) + off) % 256

\* The first size bytes of the resource at u.
Source(u, size) == [j \in 1..size |-> SourceByte(u, j - 1)]

\* Body of a successful answer to "Range: bytes=start-end" by a server that
\* returns exactly the bytes start..end (nothing when end < start).
RangeBody(u, start, end) == [j \in 1..(end - start + 1) |-> SourceByte(u, start + j - 1)]

\* The listing pages the server of url u may answer with: host "g" has one
\* page, the other hosts any page of Pages.
ServerPages(u) == IF u.host = "g" THEN { <<HrefDir, HrefA>> } ELSE Pages

\* The content-lengths the server of url u may report: the resources of host
\* "g" have one byte, the others any size up to MaxSize.
ServerSizes(u) == IF u.host = "g" THEN {1} ELSE 0..MaxSize

\* --------------------------------------------------------------- the disk
EmptyDisk == [p \in {} |-> <<>>]

Exists(d, p) == p \in DOMAIN d

\* open(p, 'wb') ... write(c) ... close()
WriteFile(d, p, c) == [q \in (DOMAIN d) \cup {p} |-> IF q = p THEN c ELSE d[q]]

\* A remove that leaves the file in place.
KeepFile(d, p) == d

\* os.remove(p)
RemoveFile(d, p) == [q \in (DOMAIN d) \ {p} |-> d[q]]

\* ------------------------------------------------------ download_file maths
\* Range computation without the correction of the last range.
RangesNoFix(total, n) ==
    LET chunk_size == total \div n
    IN  [i \in 1..n |-> <<(i - 1) * chunk_size, i * chunk_size - 1>>]

\* Range computation whose chunks overlap by one byte.
RangesOverlap(total, n) ==
    LET chunk_size == total \div n
        base == [i \in 1..n |-> <<(i - 1) * chunk_size, i * chunk_size>>]
    IN  [base EXCEPT ![n] = <<base[n][1], total - 1>>]

\* Range computation with the chunk size rounded up.
RangesCeil(total, n) ==
    LET chunk_size == (total + n - 1) \div n
        base == [i \in 1..n |-> <<(i - 1) * chunk_size, i * chunk_size - 1>>]
    IN  [base EXCEPT ![n] = <<base[n][1], total - 1>>]

\* ranges of download_file: chunk i is ranges[i + 1].
ComputeRanges(total, n) ==
    LET chunk_size == total \div n
        base == [i \in 1..n |-> <<(i - 1) * chunk_size, i * chunk_size - 1>>]
    IN  [base EXCEPT ![n] = <<base[n][1], total - 1>>]

Chunks == 0..(numThreads - 1)

\* The body of the answer to the GET of chunk i of the running download.
ChunkBody(i) == RangeBody(fileUrl, ranges[i + 1][1], ranges[i + 1][2])

\* The as_completed loop stops after the first future.
AnyCollected == collected # {}

\* The as_completed loop has yielded every future.
AllCollected == collected = DOMAIN worker

\* A shutdown that does not wait for the workers.
NoWait == TRUE

\* shutdown(wait=True) has nothing left to wait for.
NoneRunning == \A i \in DOMAIN worker : worker[i] # "running"

\* ------------------------------------------------------ download_directory
\* A filter that lets query links through.
IsSkippedNoQuery(href) ==
    \/ href = <<>>
    \/ EndsWith(href, "/")
    \/ href = <<".", ".", "/">>

\* The anchors download_directory skips.
IsSkipped(href) ==
    \/ href = <<>>
    \/ StartsWith(href, "?")
    \/ EndsWith(href, "/")
    \/ href = <<".", ".", "/">>

\* s.split('/') : the segments of s between its "/" (one empty segment when
\* s is empty).
RECURSIVE Split(_)
Split(s) ==
    IF s = <<>> THEN << <<>> >>
    ELSE LET init == Split(SubSeq(s, 1, Len(s) - 1))
         IN  IF s[Len(s)] = "/" THEN Append(init, <<>>)
             ELSE [init EXCEPT ![Len(init)] = @ \o <<s[Len(s)]>>]

\* "default_folder"
DefaultFolder == <<"d", "e", "f", "a", "u", "l", "t", "_", "f", "o", "l", "d", "e", "r">>

\* folder_name of process_urls_from_file: the last segment if the list of
\* segments is not empty, the default name otherwise.
FolderName(u) ==
    LET path_segments == Split(Strip(u.path))
    IN  IF path_segments # <<>> THEN path_segments[Len(path_segments)]
        ELSE DefaultFolder

\* The locals of download_file once it has returned or raised.
ClearFile ==
    /\ fileUrl' = UrlRoot
    /\ filePath' = <<>>
    /\ headStatus' = "none"
    /\ totalSize' = 0
    /\ ranges' = <<>>
    /\ worker' = <<>>
    /\ collected' = {}
    /\ parts' = <<>>
    /\ progress' = 0
    /\ k' = 0
    /\ diskAtStart' = EmptyDisk

InitFile ==
    /\ fileUrl = UrlRoot
    /\ filePath = <<>>
    /\ headStatus = "none"
    /\ ranges = <<>>
    /\ worker = <<>>
    /\ collected = {}
    /\ parts = <<>>
    /\ progress = 0
    /\ k = 0
    /\ diskAtStart = EmptyDisk

Init ==
    /\ urls \in InputFiles
    /\ numThreads \in 1..MaxThreads
    /\ pc = "next_url"
    /\ urlIdx = 1
    /\ links = <<>>
    /\ linkIdx = 0
    /\ destFolder = <<>>
    /\ totalSize = 0
    /\ InitFile
    /\ disk = EmptyDisk
    /\ dirs = {}
    /\ log = <<>>

\* ------------------------------------------------- process_urls_from_file
\* for url in urls: derive the destination folder and enter download_directory.
NextUrl ==
    /\ pc = "next_url"
    /\ urlIdx <= Len(urls)
    /\ destFolder' = Join(BaseDestination, FolderName(urls[urlIdx]))
    /\ pc' = "get_listing"
    /\ UNCHANGED <<urls, numThreads, urlIdx, links, linkIdx, fileVars, disk, dirs, log>>

\* The loop over urls is exhausted: the final banner is printed.
BatchDone ==
    /\ pc = "next_url"
    /\ urlIdx > Len(urls)
    /\ pc' = "banner"
    /\ UNCHANGED <<batchVars, fileVars, disk, dirs, log>>

\* ------------------------------------------------------ download_directory
\* requests.get(base_url) raises (unreachable host): nothing catches it, the
\* exception leaves download_directory and process_urls_from_file.
GetListingRaise ==
    /\ pc = "get_listing"
    /\ pc' = "aborted"
    /\ UNCHANGED <<batchVars, fileVars, disk, dirs, log>>

\* requests.get(base_url) answers with some page (whatever its status); the
\* anchors are extracted and the destination folder is created.
GetListingOk ==
    /\ pc = "get_listing"
    /\ \E page \in ServerPages(urls[urlIdx]) : links' = page
    /\ linkIdx' = 1
    /\ dirs' = dirs \cup {destFolder}
    /\ pc' = "next_link"
    /\ UNCHANGED <<urls, numThreads, urlIdx, destFolder, fileVars, disk, log>>

\* An anchor that is not a file: continue.
SkipLink ==
    /\ pc = "next_link"
    /\ linkIdx <= Len(links)
    /\ IsSkipped(links[linkIdx])
    /\ linkIdx' = linkIdx + 1
    /\ UNCHANGED <<urls, numThreads, pc, urlIdx, links, destFolder, fileVars, disk, dirs, log>>

\* An anchor that is a file: build its URL and path and call download_file.
StartFile ==
    /\ pc = "next_link"
    /\ linkIdx <= Len(links)
    /\ ~IsSkipped(links[linkIdx])
    /\ fileUrl' = [host |-> urls[urlIdx].host,
                   path |-> urls[urlIdx].path \o links[linkIdx]]
    /\ filePath' = Join(destFolder, links[linkIdx])
    /\ diskAtStart' = disk
    /\ pc' = "head"
    /\ UNCHANGED <<batchVars, headStatus, totalSize, ranges, worker, collected,
                   parts, progress, k, disk, dirs, log>>

\* The anchors are exhausted: download_directory returns.
ListingDone ==
    /\ pc = "next_link"
    /\ linkIdx > Len(links)
    /\ urlIdx' = urlIdx + 1
    /\ links' = <<>>
    /\ linkIdx' = 0
    /\ destFolder' = <<>>
    /\ pc' = "next_url"
    /\ UNCHANGED <<urls, numThreads, fileVars, disk, dirs, log>>

\* ----------------------------------------------------------- download_file
\* requests.head raises: the exception leaves download_file.
HeadRaise ==
    /\ pc = "head"
    /\ headStatus' = "raised"
    /\ pc' = "file_err"
    /\ UNCHANGED <<batchVars, fileUrl, filePath, totalSize, ranges, worker, collected,
                   parts, progress, k, diskAtStart, disk, dirs, log>>

\* requests.head answers (with a success status or not: the status is never
\* looked at); the ranges are computed and one download_chunk per range is
\* submitted to a pool of num_threads workers.
HeadRequest ==
    /\ pc = "head"
    /\ \E status \in {"ok", "bad"}, size \in ServerSizes(fileUrl) :
          /\ headStatus' = status
          /\ totalSize' = size
          /\ ranges' = ComputeRanges(size, numThreads)
    /\ worker' = [i \in Chunks |-> "running"]
    /\ collected' = {}
    /\ parts' = <<>>
    /\ progress' = 0
    /\ pc' = "collect"
    /\ UNCHANGED <<batchVars, fileUrl, filePath, k, diskAtStart, disk, dirs, log>>

\* ---------------------------------------------------------- download_chunk
\* The GET of chunk i raises or answers with a non-success status.
WorkerFail(i) ==
    /\ i \in DOMAIN worker
    /\ worker[i] = "running"
    /\ worker' = [worker EXCEPT ![i] = "failed"]
    /\ UNCHANGED <<batchVars, pc, fileUrl, filePath, headStatus, totalSize, ranges,
                   collected, parts, progress, k, diskAtStart, disk, dirs, log>>

\* A worker that advances the progress counter itself after writing.
WorkerWriteCounting(i) ==
    /\ i \in DOMAIN worker
    /\ worker[i] = "running"
    /\ disk' = WriteFile(disk, PartFile(filePath, i), ChunkBody(i))
    /\ worker' = [worker EXCEPT ![i] = "done"]
    /\ progress' = progress + Len(ChunkBody(i))
    /\ UNCHANGED <<batchVars, pc, fileUrl, filePath, headStatus, totalSize, ranges,
                   collected, parts, k, diskAtStart, dirs, log>>

\* The GET of chunk i succeeds and its whole body is written to the artifact.
WorkerWrite(i) ==
    /\ i \in DOMAIN worker
    /\ worker[i] = "running"
    /\ disk' = WriteFile(disk, PartFile(filePath, i), ChunkBody(i))
    /\ worker' = [worker EXCEPT ![i] = "done"]
    /\ UNCHANGED <<batchVars, pc, fileUrl, filePath, headStatus, totalSize, ranges,
                   collected, parts, progress, k, diskAtStart, dirs, log>>

\* The GET of chunk i succeeds but the stream breaks after n bytes: the
\* artifact holds a proper prefix of the body and the worker raises.
WorkerPartial(i) ==
    /\ i \in DOMAIN worker
    /\ worker[i] = "running"
    /\ LET body == ChunkBody(i)
       IN  \E n \in 0..(Len(body) - 1) :
               disk' = WriteFile(disk, PartFile(filePath, i), SubSeq(body, 1, n))
    /\ worker' = [worker EXCEPT ![i] = "failed"]
    /\ UNCHANGED <<batchVars, pc, fileUrl, filePath, headStatus, totalSize, ranges,
                   collected, parts, progress, k, diskAtStart, dirs, log>>

\* ------------------------------------------- download_file, the coordinator
\* A collection that records the artifact of chunk 0 for every future.
CollectDoneFirst(i) ==
    /\ pc = "collect"
    /\ i \in DOMAIN worker
    /\ i \notin collected
    /\ worker[i] = "done"
    /\ collected' = collected \cup {i}
    /\ parts' = Append(parts, PartFile(filePath, 0))
    /\ progress' = progress + Len(disk[PartFile(filePath, i)])
    /\ UNCHANGED <<batchVars, pc, fileUrl, filePath, headStatus, totalSize, ranges,
                   worker, k, diskAtStart, disk, dirs, log>>

\* as_completed yields the future of chunk i, which returned its artifact.
CollectDone(i) ==
    /\ pc = "collect"
    /\ i \in DOMAIN worker
    /\ i \notin collected
    /\ worker[i] = "done"
    /\ collected' = collected \cup {i}
    /\ parts' = Append(parts, PartFile(filePath, i))
    /\ progress' = progress + Len(disk[PartFile(filePath, i)])
    /\ UNCHANGED <<batchVars, pc, fileUrl, filePath, headStatus, totalSize, ranges,
                   worker, k, diskAtStart, disk, dirs, log>>

\* A failed chunk that is requested again.
CollectFailedRetry(i) ==
    /\ pc = "collect"
    /\ i \in DOMAIN worker
    /\ i \notin collected
    /\ worker[i] = "failed"
    /\ worker' = [worker EXCEPT ![i] = "running"]
    /\ UNCHANGED <<batchVars, pc, fileUrl, filePath, headStatus, totalSize, ranges,
                   collected, parts, progress, k, diskAtStart, disk, dirs, log>>

\* A failed future that is passed over without re-raising.
CollectFailedIgnored(i) ==
    /\ pc = "collect"
    /\ i \in DOMAIN worker
    /\ i \notin collected
    /\ worker[i] = "failed"
    /\ collected' = collected \cup {i}
    /\ UNCHANGED <<batchVars, pc, fileUrl, filePath, headStatus, totalSize, ranges,
                   worker, parts, progress, k, diskAtStart, disk, dirs, log>>

\* as_completed yields the future of chunk i, which raised: future.result()
\* re-raises and the with-blocks are left.
CollectFailed(i) ==
    /\ pc = "collect"
    /\ i \in DOMAIN worker
    /\ i \notin collected
    /\ worker[i] = "failed"
    /\ collected' = collected \cup {i}
    /\ pc' = "unwind"
    /\ UNCHANGED <<batchVars, fileUrl, filePath, headStatus, totalSize, ranges,
                   worker, parts, progress, k, diskAtStart, disk, dirs, log>>

\* The executor's __exit__ on the way out of a failure: shutdown(wait=True)
\* returns once no worker is running, and the exception leaves download_file.
UnwindJoin ==
    /\ pc = "unwind"
    /\ NoneRunning
    /\ pc' = "file_err"
    /\ UNCHANGED <<batchVars, fileVars, disk, dirs, log>>

\* Every future was yielded; the pool is shut down; combine_parts is called.
PoolExit ==
    /\ pc = "collect"
    /\ AllCollected
    /\ pc' = "combine_open"
    /\ UNCHANGED <<batchVars, fileVars, disk, dirs, log>>

\* ----------------------------------------------------------- combine_parts
\* open(file_name, 'wb'): the final file is created or truncated.
CombineOpen ==
    /\ pc = "combine_open"
    /\ disk' = WriteFile(disk, filePath, <<>>)
    /\ k' = 1
    /\ pc' = "combine_read"
    /\ UNCHANGED <<batchVars, fileUrl, filePath, headStatus, totalSize, ranges,
                   worker, collected, parts, progress, diskAtStart, dirs, log>>

\* f.write(p.read()) for the next entry of parts.
CombineRead ==
    /\ pc = "combine_read"
    /\ k <= Len(parts)
    /\ Exists(disk, parts[k])
    /\ disk' = WriteFile(disk, filePath, disk[filePath] \o disk[parts[k]])
    /\ pc' = "combine_remove"
    /\ UNCHANGED <<batchVars, fileVars, dirs, log>>

\* os.remove(part) for the entry just appended.
CombineRemove ==
    /\ pc = "combine_remove"
    /\ disk' = RemoveFile(disk, parts[k])
    /\ k' = k + 1
    /\ pc' = "combine_read"
    /\ UNCHANGED <<batchVars, fileUrl, filePath, headStatus, totalSize, ranges,
                   worker, collected, parts, progress, diskAtStart, dirs, log>>

\* parts is exhausted: combine_parts returns.
CombineReturn ==
    /\ pc = "combine_read"
    /\ k > Len(parts)
    /\ pc' = "file_ok"
    /\ UNCHANGED <<batchVars, fileVars, disk, dirs, log>>

\* download_file prints its success line and returns to download_directory.
FileOk ==
    /\ pc = "file_ok"
    /\ log' = Append(log, <<"ok", filePath>>)
    /\ ClearFile
    /\ linkIdx' = linkIdx + 1
    /\ pc' = "next_link"
    /\ UNCHANGED <<urls, numThreads, urlIdx, links, destFolder, disk, dirs>>

\* except Exception in download_directory: the failure is printed and the
\* loop over the anchors goes on.
FileErr ==
    /\ pc = "file_err"
    /\ log' = Append(log, <<"err", filePath>>)
    /\ ClearFile
    /\ linkIdx' = linkIdx + 1
    /\ pc' = "next_link"
    /\ UNCHANGED <<urls, numThreads, urlIdx, links, destFolder, disk, dirs>>

Next ==
    \/ NextUrl
    \/ BatchDone
    \/ GetListingRaise
    \/ GetListingOk
    \/ SkipLink
    \/ StartFile
    \/ ListingDone
    \/ HeadRaise
    \/ HeadRequest
    \/ \E i \in Chunks : WorkerFail(i)
    \/ \E i \in Chunks : WorkerWrite(i)
    \/ \E i \in Chunks : WorkerPartial(i)
    \/ \E i \in Chunks : CollectDone(i)
    \/ \E i \in Chunks : CollectFailed(i)
    \/ UnwindJoin
    \/ PoolExit
    \/ CombineOpen
    \/ CombineRead
    \/ CombineRemove
    \/ CombineReturn
    \/ FileOk
    \/ FileErr

Spec == Init /\ [][Next]_vars

\* The steps of the main thread.
MainThread ==
    \/ NextUrl
    \/ BatchDone
    \/ GetListingRaise
    \/ GetListingOk
    \/ SkipLink
    \/ StartFile
    \/ ListingDone
    \/ HeadRaise
    \/ HeadRequest
    \/ \E i \in Chunks : CollectDone(i)
    \/ \E i \in Chunks : CollectFailed(i)
    \/ UnwindJoin
    \/ PoolExit
    \/ CombineOpen
    \/ CombineRead
    \/ CombineRemove
    \/ CombineReturn
    \/ FileOk
    \/ FileErr

\* The steps of the pool's worker threads: a request returns, with its body,
\* with a failure, or with a stream that breaks.
Workers ==
    \E i \in Chunks : WorkerFail(i) \/ WorkerWrite(i) \/ WorkerPartial(i)

\* The input files of the fair model: one URL of a host that serves any page
\* and any size, and a batch of two URLs of the host with one page.
LiveInputFiles == { <<UrlRoot>>, <<UrlY, UrlY>> }

InitLive ==
    /\ urls \in LiveInputFiles
    /\ numThreads \in 1..MaxThreads
    /\ pc = "next_url"
    /\ urlIdx = 1
    /\ links = <<>>
    /\ linkIdx = 0
    /\ destFolder = <<>>
    /\ totalSize = 0
    /\ InitFile
    /\ disk = EmptyDisk
    /\ dirs = {}
    /\ log = <<>>

\* The program with threads that are scheduled and requests that return:
\* the main thread takes its next step when it has one, and a request in
\* flight ends.
FairSpec == InitLive /\ [][Next]_vars /\ WF_vars(MainThread) /\ WF_vars(Workers)

\* --------------------------------------------- the range computation alone
\* download_file's range computation applied to every total_size in
\* 0..PMaxSize and every num_threads in 1..PMaxThreads.
InitPartition ==
    /\ urls = <<>>
    /\ numThreads \in 1..PMaxThreads
    /\ totalSize \in 0..PMaxSize
    /\ pc = "part_input"
    /\ urlIdx = 1
    /\ links = <<>>
    /\ linkIdx = 0
    /\ destFolder = <<>>
    /\ InitFile
    /\ disk = EmptyDisk
    /\ dirs = {}
    /\ log = <<>>

PartitionStep ==
    /\ pc = "part_input"
    /\ ranges' = ComputeRanges(totalSize, numThreads)
    /\ pc' = "part_done"
    /\ UNCHANGED <<batchVars, fileUrl, filePath, headStatus, totalSize, worker,
                   collected, parts, progress, k, diskAtStart, disk, dirs, log>>

NextPartition == PartitionStep

SpecPartition == InitPartition /\ [][NextPartition]_vars

\* ------------------------------------------------------------------ claims
CombinePcs == {"combine_open", "combine_read", "combine_remove"}

\* The bodies of chunks 0..n-1 of the running download, in ordinal order.
RECURSIVE InOrdinalOrder(_)
InOrdinalOrder(n) ==
    IF n = 0 THEN <<>> ELSE InOrdinalOrder(n - 1) \o ChunkBody(n - 1)

\* C1: when download_file has combined its parts, the final file is the
\* concatenation of the chunk artifacts (artifact i holds the body of chunk
\* i) in ascending ordinal index 0..N-1, whatever the completion order was.
C1_FinalInOrdinalOrder ==
    pc = "file_ok" => disk[filePath] = InOrdinalOrder(numThreads)

RangeLen(r) == r[2] - r[1] + 1

RECURSIVE SumLen(_, _)
SumLen(rs, n) == IF n = 0 THEN 0 ELSE SumLen(rs, n - 1) + RangeLen(rs[n])

\* rs partitions the offsets 0..total-1: ascending, contiguous from 0, no
\* range of negative length, every offset in exactly one range, lengths
\* adding up to total.
IsExactPartition(rs, total) ==
    /\ rs[1][1] = 0
    /\ \A i \in 2..Len(rs) : rs[i][1] = rs[i - 1][2] + 1
    /\ \A i \in 1..Len(rs) : RangeLen(rs[i]) >= 0
    /\ \A i \in 1..Len(rs) : \A j \in (i + 1)..Len(rs) : rs[i][1] <= rs[j][1]
    /\ \A b \in 0..(total - 1) :
           Cardinality({i \in 1..Len(rs) : rs[i][1] <= b /\ b <= rs[i][2]}) = 1
    /\ \A i \in 1..Len(rs) : rs[i][1] >= 0 /\ rs[i][2] <= total - 1
    /\ SumLen(rs, Len(rs)) = total

\* C2: for every total_size >= 0 and thread count >= 1 the computed ranges
\* are exactly thread-count many and partition [0, total_size - 1]: ordered,
\* non-overlapping, contiguous, first start 0, lengths summing to total_size.
C2_RangesPartition ==
    pc = "part_done" =>
        /\ Len(ranges) = numThreads
        /\ IsExactPartition(ranges, totalSize)

C2_Witness ==
    /\ pc = "part_done"
    /\ numThreads > 1
    /\ totalSize > numThreads
    /\ totalSize % numThreads # 0

\* C3: the end offset of the last computed range is total_size - 1.
C3_LastEnd ==
    pc = "part_done" => ranges[Len(ranges)][2] = totalSize - 1

C3_Witness ==
    /\ pc = "part_done"
    /\ totalSize % numThreads # 0
    /\ RangeLen(ranges[Len(ranges)]) > totalSize \div numThreads

\* The paths of the files of the current listing other than the file being
\* downloaded: their final files and their artifacts.
OtherFilePaths ==
    LET others == {Join(destFolder, links[j]) :
                      j \in {j \in 1..Len(links) : ~IsSkipped(links[j])}} \ {filePath}
    IN  others \cup {PartFile(f, i) : f \in others, i \in Chunks}

SameAsAtStart(p) ==
    /\ Exists(disk, p) <=> Exists(diskAtStart, p)
    /\ Exists(disk, p) => disk[p] = diskAtStart[p]

\* C4: a download with a failed chunk never reaches combine_parts, and when
\* its failure arrives at download_directory's except clause the final files
\* and artifacts of the other files of the listing are as they were when the
\* download began.
C4_FailureIsolated ==
    /\ pc \in CombinePcs \cup {"file_ok"} => \A i \in Chunks : worker[i] = "done"
    /\ pc = "file_err" => \A p \in OtherFilePaths : SameAsAtStart(p)

\* C5: while combine_parts runs no chunk worker of the download is running,
\* and when it begins every chunk has returned and all N artifacts exist.
C5_CombineAfterBarrier ==
    /\ pc \in CombinePcs => \A i \in Chunks : worker[i] # "running"
    /\ pc = "combine_open" =>
           \A i \in Chunks :
               /\ worker[i] = "done"
               /\ Exists(disk, PartFile(filePath, i))
               /\ disk[PartFile(filePath, i)] = ChunkBody(i)

C5_Witness ==
    /\ pc = "combine_open"
    /\ numThreads >= 2
    /\ parts[1] # PartFile(filePath, 0)

\* s ends with t.
IsSuffix(t, s) ==
    /\ Len(t) <= Len(s)
    /\ SubSeq(s, Len(s) - Len(t) + 1, Len(s)) = t

\* C6: every artifact combine_parts has passed is gone before the next one
\* is read, the one about to be removed has just been appended to the final
\* file, and once combine_parts has returned no artifact of the download is
\* on disk.
C6_ArtifactsRemoved ==
    /\ pc \in {"combine_read", "combine_remove"} =>
           \A j \in 1..(k - 1) : ~Exists(disk, parts[j])
    /\ pc = "combine_remove" =>
           /\ Exists(disk, parts[k])
           /\ IsSuffix(disk[parts[k]], disk[filePath])
    /\ pc = "file_ok" => \A i \in Chunks : ~Exists(disk, PartFile(filePath, i))

C6_Witness ==
    /\ pc = "file_ok"
    /\ numThreads >= 2
    /\ totalSize >= numThreads
    /\ Len(disk[filePath]) = totalSize

\* C7: when the HEAD request raises or answers with a non-success status, no
\* chunk fetch is dispatched and combine_parts never writes the final file.
C7_HeadFailureStopsDownload ==
    headStatus \in {"raised", "bad"} =>
        /\ DOMAIN worker = {}
        /\ pc \notin CombinePcs \cup {"file_ok"}

\* C8: with total_size 0 or one thread a single range (0, total_size - 1) is
\* computed and dispatched, and total_size 0 gives a zero-byte final file.
C8_SingleRange ==
    /\ (pc = "collect" /\ (totalSize = 0 \/ numThreads = 1)) =>
           /\ Len(ranges) = 1
           /\ ranges[1] = <<0, totalSize - 1>>
           /\ DOMAIN worker = {0}
    /\ (pc = "file_ok" /\ totalSize = 0) => disk[filePath] = <<>>

\* C9: no error leaves download_directory, and the batch stops only at its
\* final banner.
C9_ReachesBanner ==
    /\ pc # "aborted"
    /\ pc = "banner" \/ ENABLED Next

\* C10: with a server that answers every range request with exactly the
\* bytes asked for, the final file of a finished download has total_size
\* bytes and equals the source byte for byte.
C10_FinalEqualsSource ==
    pc = "file_ok" =>
        /\ Len(disk[filePath]) = totalSize
        /\ disk[filePath] = Source(fileUrl, totalSize)

\* The anchors a listing is to yield: href present, not a query link, not a
\* directory, not the parent link.
IsFileHref(h) ==
    /\ h # <<>>
    /\ h[1] # "?"
    /\ h[Len(h)] # "/"
    /\ h # <<".", ".", "/">>

\* The last n entries of s.
LastN(s, n) == SubSeq(s, Len(s) - n + 1, Len(s))

\* C11: between two anchors of a listing, the files download_directory has
\* called download_file for (each leaves one line) are exactly the file hrefs
\* among the anchors passed so far, in page order.
C11_ListingFilter ==
    pc = "next_link" =>
        LET wanted == SelectSeq(SubSeq(links, 1, linkIdx - 1), IsFileHref)
        IN  /\ Len(log) >= Len(wanted)
            /\ urlIdx = 1 => Len(log) = Len(wanted)
            /\ \A j \in 1..Len(wanted) :
                   LastN(log, Len(wanted))[j][2] = Join(destFolder, wanted[j])

C11_Witness ==
    /\ pc = "next_link"
    /\ links = <<HrefUp, HrefQuery, HrefDir, HrefNone, HrefA>>
    /\ linkIdx > Len(links)
    /\ Len(log) = 1

\* The folder name the claim gives: the last non-empty path segment, and the
\* default name for a path without segments.
ExpectedFolderName(u) ==
    IF Strip(u.path) = <<>> THEN DefaultFolder ELSE LastSegment(Strip(u.path))

\* C12: the destination folder of a URL is named after the last non-empty
\* segment of its path, and "default_folder" when the path has no segment.
C12_FolderName ==
    pc = "get_listing" =>
        destFolder = Join(BaseDestination, ExpectedFolderName(urls[urlIdx]))

SomeWorkerRunning == \E i \in DOMAIN worker : worker[i] = "running"

\* C13: a chunk worker runs only while the main thread is inside the pool of
\* its own download_file call (collecting, or waiting in the pool's exit
\* after a failure); when download_file has returned or raised, and between
\* files, no worker is running and no pool exists.
C13_OnePoolAtATime ==
    /\ SomeWorkerRunning => pc \in {"collect", "unwind"}
    /\ pc \in {"file_ok", "file_err"} => ~SomeWorkerRunning
    /\ pc \in {"next_url", "get_listing", "next_link", "head", "banner", "aborted"} =>
           DOMAIN worker = {}

C13_Witness ==
    /\ pc = "file_err"
    /\ numThreads >= 2
    /\ \E i \in DOMAIN worker : i \notin collected /\ worker[i] = "done"

\* t is a proper prefix of s.
IsProperPrefix(t, s) == Len(t) < Len(s) /\ SubSeq(s, 1, Len(t)) = t

\* C14: a download with a failed chunk never reaches combine_parts; when its
\* failure arrives at the except clause the final file is as it was when the
\* download began, the artifact of every chunk that returned is on disk with
\* its bytes, and the artifact of a failed chunk is untouched or holds a
\* proper prefix of its body.
C14_NoCleanupOnFailure ==
    /\ pc \in CombinePcs \cup {"file_ok"} =>
           \A i \in DOMAIN worker : worker[i] # "failed"
    /\ pc = "file_err" =>
           /\ SameAsAtStart(filePath)
           /\ \A i \in DOMAIN worker :
                  LET part == PartFile(filePath, i)
                  IN  /\ worker[i] = "done" =>
                             Exists(disk, part) /\ disk[part] = ChunkBody(i)
                      /\ worker[i] = "failed" =>
                             \/ SameAsAtStart(part)
                             \/ Exists(disk, part) /\ IsProperPrefix(disk[part], ChunkBody(i))

C14_Witness ==
    /\ pc = "file_err"
    /\ \E i \in DOMAIN worker :
           worker[i] = "done" /\ disk[PartFile(filePath, i)] # <<>>
    /\ \E j \in DOMAIN worker :
           /\ worker[j] = "failed"
           /\ Exists(disk, PartFile(filePath, j))
           /\ ~Exists(diskAtStart, PartFile(filePath, j))

\* The sizes of the artifacts of chunks 0..n-1 of the running download, added.
RECURSIVE SumArtifactSizes(_)
SumArtifactSizes(n) ==
    IF n = 0 THEN 0
    ELSE SumArtifactSizes(n - 1) + Len(disk[PartFile(filePath, n - 1)])

\* A step of the main thread that takes one returned chunk from
\* as_completed and adds the size of its artifact to the counter; no worker
\* changes state in it.
CoordinatorAdvance ==
    /\ pc = "collect"
    /\ pc' = "collect"
    /\ worker' = worker
    /\ \E i \in DOMAIN worker :
           /\ worker[i] = "done"
           /\ i \notin collected
           /\ collected' = collected \cup {i}
           /\ progress' = progress + Len(disk[PartFile(filePath, i)])

\* The counter of a new progress bar (a new download_file call, or the
\* call's end) is 0.
CounterReset == progress' = 0 /\ pc \in {"head", "file_ok", "file_err"}

\* C15: the progress counter changes only in steps of the main thread, once
\* per returned chunk and by that chunk's artifact size; when every chunk has
\* returned it is the sum of the artifact sizes, which is total_size.
C15_ProgressByCoordinator ==
    /\ [](pc = "combine_open" =>
              /\ progress = SumArtifactSizes(numThreads)
              /\ progress = totalSize)
    /\ [][progress' # progress => CoordinatorAdvance \/ CounterReset]_vars

C15_Witness ==
    /\ pc = "combine_open"
    /\ numThreads >= 2
    /\ totalSize >= 2
    /\ progress = totalSize

PoolPcs == {"collect", "unwind"} \cup CombinePcs \cup {"file_ok"}

\* C16: once the chunks are dispatched there are exactly num_threads ranges
\* and one worker per ordinal index 0..num_threads-1, and a chunk whose
\* request has returned or failed is never requested again.
C16_OneRequestPerRange ==
    /\ [](pc \in PoolPcs =>
              /\ Len(ranges) = numThreads
              /\ DOMAIN worker = 0..(numThreads - 1))
    /\ [][\A i \in DOMAIN worker :
              (worker[i] \in {"done", "failed"} /\ i \in DOMAIN worker')
                  => worker'[i] = worker[i]]_vars

C16_Witness ==
    /\ pc = "unwind"
    /\ numThreads >= 2
    /\ \E i \in DOMAIN worker : worker[i] = "failed"
    /\ \E j \in DOMAIN worker : worker[j] = "running"

\* The artifact of chunk i has not been passed by combine_parts.
NotYetConsumed(i) ==
    \/ pc \in {"collect", "unwind", "combine_open", "file_err"}
    \/ /\ pc \in {"combine_read", "combine_remove"}
       /\ \A j \in 1..(k - 1) : parts[j] # PartFile(filePath, i)

\* path p is the same, present or absent, before and after the step.
SameAcrossStep(p) ==
    /\ Exists(disk', p) <=> Exists(disk, p)
    /\ Exists(disk, p) => disk'[p] = disk[p]

\* C17: the artifact names of the chunks of a download are pairwise
\* distinct, the step in which worker i finishes changes no path but
\* <file>.part<i>, and the artifact of a chunk that has returned holds that
\* chunk's bytes until combine_parts has passed it.
C17_OwnArtifactOnly ==
    /\ [](pc \in PoolPcs =>
              \A i \in Chunks : \A j \in Chunks :
                  i # j => PartFile(filePath, i) # PartFile(filePath, j))
    /\ [](\A i \in DOMAIN worker :
              (worker[i] = "done" /\ NotYetConsumed(i)) =>
                  /\ Exists(disk, PartFile(filePath, i))
                  /\ disk[PartFile(filePath, i)] = ChunkBody(i))
    /\ [][\A i \in DOMAIN worker :
              (worker[i] = "running" /\ i \in DOMAIN worker' /\ worker'[i] # "running") =>
                  \A p \in (DOMAIN disk \cup DOMAIN disk') \ {PartFile(filePath, i)} :
                      SameAcrossStep(p)]_vars

C17_Witness ==
    /\ pc = "collect"
    /\ numThreads >= 2
    /\ collected = {}
    /\ \A i \in DOMAIN worker : worker[i] = "done"
    /\ disk[PartFile(filePath, 0)] # disk[PartFile(filePath, 1)]

\* C18: when every request returns, every download_file call ends (the main
\* thread is back in the loop over the anchors) and the batch ends (at its
\* banner, or with the exception of a listing request); and a step that
\* leaves a chunk request in flight leaves the main thread inside that
\* file's pool, so no later file or URL starts before the request returns.
C18_RequestsReturnBatchEnds ==
    /\ (pc = "head") ~> (pc = "next_link")
    /\ <>(pc \in {"banner", "aborted"})
    /\ [][(\E i \in DOMAIN worker :
               worker[i] = "running" /\ i \in DOMAIN worker' /\ worker'[i] = "running")
              => (pc' \in {"collect", "unwind"} /\ filePath' = filePath
                  /\ linkIdx' = linkIdx /\ urlIdx' = urlIdx)]_vars

C18_Witness ==
    /\ pc = "banner"
    /\ Len(urls) = 2
    /\ Len(log) = 2
    /\ \E j \in 1..Len(log) : log[j][1] = "err"

\* C19: for 0 < total_size < num_threads the chunk size is 0: every range
\* but the last is the inverted range (0, -1) and the last is
\* (0, total_size - 1), the whole file.
C19_SmallFileRanges ==
    (pc = "part_done" /\ 0 < totalSize /\ totalSize < numThreads) =>
        /\ \A i \in 1..(numThreads - 1) : ranges[i] = <<0, -1>>
        /\ ranges[numThreads] = <<0, totalSize - 1>>

C19_Witness ==
    /\ pc = "part_done"
    /\ totalSize >= 2
    /\ numThreads >= totalSize + 2

\* C20: the list combine_parts receives has N entries, no entry twice, and
\* its entries are the N paths <file>.part0 .. <file>.part(N-1); while the
\* futures are collected it holds one entry per collected chunk.
C20_PartsPermutation ==
    /\ pc \in {"collect", "combine_open"} =>
           /\ \A a \in 1..Len(parts) : \A b \in 1..Len(parts) :
                  a # b => parts[a] # parts[b]
           /\ {parts[a] : a \in 1..Len(parts)} =
                  {PartFile(filePath, i) : i \in {i \in collected : worker[i] = "done"}}
    /\ pc = "combine_open" =>
           /\ Len(parts) = numThreads
           /\ {parts[a] : a \in 1..Len(parts)} =
                  {PartFile(filePath, i) : i \in 0..(numThreads - 1)}

C20_Witness ==
    /\ pc = "combine_open"
    /\ numThreads >= 2
    /\ parts[Len(parts)] = PartFile(filePath, 0)

====
